---- MODULE Spec2Model ----
(***************************************************************************)
(* Model of dr-bot (src/main.py): the booking table parser scrape_room     *)
(* with process_time, the availability scan get_availability, and the      *)
(* per-room snapshot query_today.                                          *)
(*                                                                         *)
(* Instants are minutes since midnight of the queried date; every instant  *)
(* is localized to the same fixed zone (Asia/Singapore, no DST), so        *)
(* comparing instants is comparing these integers.                         *)
(* A string is a sequence of lexical tokens: a time-of-day token such as   *)
(* "1:00PM", the delimiter " - ", or a piece of free text.                 *)
(* Python's None is the empty sequence and a value v is <<v>>.             *)
(***************************************************************************)
EXTENDS Integers, Sequences, FiniteSets, TLC

VARIABLES
    now,        \* datetime.now(sgt), read by get_availability
    data,       \* get_availability's argument: a list of ((start, end), reason)
    idx,        \* position of the for loop of get_availability (1-based)
    booked,     \* get_availability's local
    until,      \* get_availability's local
    avPc,       \* "scan" | "exit" | "done"
    content,    \* scrape_room: the rows of the fetched page
    row_i,      \* position of the for loop of scrape_room (1-based)
    processed,  \* scrape_room's local list
    scPc,       \* "loop" | "returned" | "raised"
    scResult,   \* what scrape_room's caller receives: None or <<processed>>
    pages,      \* query_today: the page the calendar serves for each room
    room_i,     \* position of query_today's comprehension / for loop
    qtBookings, \* query_today: data[room]["bookings"] of the rooms scraped so far
    qtStatus,   \* query_today: (booked, until) of the rooms inferred so far
    qtPc,       \* "scrape" | "infer" | "returned" | "raised"
    qtResult    \* what query_today's caller receives: None or <<map>>

vars == <<now, data, idx, booked, until, avPc, content, row_i, processed,
          scPc, scResult, pages, room_i, qtBookings, qtStatus, qtPc, qtResult>>

avVars == <<data, idx, booked, until, avPc>>
scVars == <<content, row_i, processed, scPc, scResult>>
qtVars == <<pages, room_i, qtBookings, qtStatus, qtPc, qtResult>>

None == <<>>
Some(v) == <<v>>

SeqsUpTo(S, n) == UNION {[1..k -> S] : k \in 0..n}

(***************************************************************************)
(* Bounds of the model.                                                    *)
(***************************************************************************)
MaxTime == 2
MaxLen == 3
MaxRows == 2
MaxSlotLen == 3

Times == 0..MaxTime

\* One element of data: ((start, end), reason).
Booking(s, e, r) == <<<<s, e>>, r>>
StartOf(b) == b[1][1]
EndOf(b) == b[1][2]
ReasonOf(b) == b[2]

(***************************************************************************)
(* get_availability (src/main.py 75-99)                                    *)
(***************************************************************************)

\* A mutation: no booking is ever taken to be in the past.
InPast_never(b, t) == FALSE

\* `if end < now: continue`
InPast(b, t) == EndOf(b) < t

\* A mutation: the end boundary is exclusive.
BookedNow_exclusive(b, t) == StartOf(b) <= t /\ t < EndOf(b)

\* A mutation: the start boundary is exclusive.
BookedNow_afterStart(b, t) == StartOf(b) < t /\ t <= EndOf(b)

\* `if start <= now <= end:`
BookedNow(b, t) == StartOf(b) <= t /\ t <= EndOf(b)

\* A mutation: the flag is set but until is left alone.
OnBookedNow_keepUntil(st, b) == [st EXCEPT !.booked = TRUE]

\* `booked = True; until = end; continue`
OnBookedNow(st, b) == [st EXCEPT !.booked = TRUE, !.until = Some(EndOf(b))]

\* A mutation: until is set to the end of the first future booking.
OnFirstFuture_end(st, b) == [st EXCEPT !.until = Some(EndOf(b)), !.brk = TRUE]

\* `if not booked: until = start; break`
OnFirstFuture(st, b) == [st EXCEPT !.until = Some(StartOf(b)), !.brk = TRUE]

\* A mutation: a later booking extends the busy time across a gap.
OnLaterBooking_noGap(st, b) == [st EXCEPT !.until = Some(EndOf(b))]

\* `if booked: if start == until: until = end else: break`
OnLaterBooking(st, b) ==
    IF Some(StartOf(b)) = st.until
    THEN [st EXCEPT !.until = Some(EndOf(b))]
    ELSE [st EXCEPT !.brk = TRUE]

\* One pass through the body of the for loop; brk says the loop was left.
LoopBody(st, b, t) ==
    IF InPast(b, t) THEN st
    ELSE IF BookedNow(b, t) THEN OnBookedNow(st, b)
    ELSE IF ~st.booked THEN OnFirstFuture(st, b)
    ELSE OnLaterBooking(st, b)

AvStart == [booked |-> FALSE, until |-> None, brk |-> FALSE]

RECURSIVE Scan(_, _, _, _)
Scan(d, t, i, st) ==
    IF i > Len(d) THEN st
    ELSE LET n == LoopBody(st, d[i], t)
         IN  IF n.brk THEN n ELSE Scan(d, t, i + 1, n)

\* The whole call: (booked, until).
get_availability(d, t) ==
    LET r == Scan(d, t, 1, AvStart) IN <<r.booked, r.until>>

Bookings == {Booking(s, e, <<"A">>) : s \in Times, e \in Times}

AvInit ==
    /\ now \in Times
    /\ \E k \in 0..MaxLen : data \in [1..k -> Bookings]
    /\ idx = 1
    /\ booked = AvStart.booked
    /\ until = AvStart.until
    /\ avPc = "scan"

\* One iteration of the for loop.
AvIterate ==
    /\ avPc = "scan"
    /\ idx <= Len(data)
    /\ LET n == LoopBody([booked |-> booked, until |-> until, brk |-> FALSE],
                         data[idx], now)
       IN  /\ booked' = n.booked
           /\ until' = n.until
           /\ avPc' = IF n.brk THEN "exit" ELSE "scan"
           /\ idx' = IF n.brk THEN idx ELSE idx + 1
    /\ UNCHANGED <<now, data>>

\* The iterator is exhausted.
AvExhausted ==
    /\ avPc = "scan"
    /\ idx > Len(data)
    /\ avPc' = "exit"
    /\ UNCHANGED <<now, data, idx, booked, until>>

\* `return booked, until`
AvReturn ==
    /\ avPc = "exit"
    /\ avPc' = "done"
    /\ UNCHANGED <<now, data, idx, booked, until>>

(***************************************************************************)
(* process_time (src/main.py 50-53) and scrape_room (src/main.py 56-72)    *)
(***************************************************************************)

\* The delimiter of `slot.split(" - ")`.
Delimiter == " - "

\* The text of the one-cell row of a day without bookings.
NoBookings == <<"No bookings made.">>

\* The time-of-day tokens of the model with the fields "%I:%M%p" reads from
\* them: hour digits, minute digits, AM/PM.
TimeTokens == {"12:00AM", "1:00PM"}

Fields(tok) ==
    CASE tok = "12:00AM" -> [I |-> 12, M |-> 0, p |-> "AM"]
      [] tok = "1:00PM" -> [I |-> 1, M |-> 0, p |-> "PM"]

\* datetime.strptime(time, "%I:%M%p") accepts the whole string or raises:
\* the empty string and a string with unconverted data left over are refused.
StrptimeMatches(str) ==
    /\ Len(str) = 1
    /\ str[1] \in TimeTokens
    /\ Fields(str[1]).I \in 1..12
    /\ Fields(str[1]).M \in 0..59

\* The hour of the 24-hour clock: 12AM is 0, 12PM is 12, other PM hours + 12.
Hour24(f) == IF f.p = "PM" THEN (f.I % 12) + 12 ELSE f.I % 12

\* process_time on a string that strptime accepts: the instant on the
\* queried date, in minutes since its midnight.
process_time(str) == Hour24(Fields(str[1])) * 60 + Fields(str[1]).M

\* The position of the first delimiter of str, 0 when there is none.
FirstDelimiter(str) ==
    IF \E i \in 1..Len(str) : str[i] = Delimiter
    THEN CHOOSE i \in 1..Len(str) :
            /\ str[i] = Delimiter
            /\ \A m \in 1..(i - 1) : str[m] # Delimiter
    ELSE 0

\* str.split(" - "): the pieces between the delimiters, empty ones included.
RECURSIVE Split(_)
Split(str) ==
    LET i == FirstDelimiter(str)
    IN  IF i = 0 THEN <<str>>
        ELSE <<SubSeq(str, 1, i - 1)>> \o Split(SubSeq(str, i + 1, Len(str)))

ScStart == [processed |-> <<>>, raised |-> FALSE]

\* A mutation: a row that cannot be parsed is skipped.
Raise_skipRow(st) == st

\* An exception leaves scrape_room: nothing is returned.
Raise(st) == [st EXCEPT !.raised = TRUE]

\* A mutation: the no-bookings row is parsed like any other row.
IsNoBookingsRow_never(row) == FALSE

\* `if row[0] == "No bookings made.": continue`
IsNoBookingsRow(row) == row[1] = NoBookings

\* One pass through the body of the for loop of scrape_room.
RowBody(st, row) ==
    IF Len(row) = 0 THEN Raise(st)                      \* row[0]
    ELSE IF IsNoBookingsRow(row) THEN st                \* continue
    ELSE IF Len(row) # 2 THEN Raise(st)                 \* slot, reason = row
    ELSE LET parts == Split(row[1])
         IN  IF Len(parts) # 2 THEN Raise(st)           \* start, end = ...
             ELSE IF ~StrptimeMatches(parts[1]) THEN Raise(st)
             ELSE IF ~StrptimeMatches(parts[2]) THEN Raise(st)
             ELSE [st EXCEPT !.processed =
                      Append(@, Booking(process_time(parts[1]),
                                        process_time(parts[2]), row[2]))]

RECURSIVE ScrapeFrom(_, _, _)
ScrapeFrom(rows, i, st) ==
    IF i > Len(rows) THEN st
    ELSE LET n == RowBody(st, rows[i])
         IN  IF n.raised THEN n ELSE ScrapeFrom(rows, i + 1, n)

\* The whole call on the rows of a fetched page.
scrape_room(rows) == ScrapeFrom(rows, 1, ScStart)

Slots == SeqsUpTo(TimeTokens \cup {Delimiter}, MaxSlotLen)

Reasons == {<<"A">>}

\* The rows of a page: the no-bookings row, two-cell rows (slot, reason),
\* and a one-cell row of other text.
Rows ==
    {<<NoBookings>>} \cup {<<s, r>> : s \in Slots, r \in Reasons}
        \cup {<<r>> : r \in Reasons}

ScInit ==
    /\ \E k \in 0..MaxRows : content \in [1..k -> Rows]
    /\ row_i = 1
    /\ processed = ScStart.processed
    /\ scPc = "loop"
    /\ scResult = None

\* One iteration of the for loop over content.
ScIterate ==
    /\ scPc = "loop"
    /\ row_i <= Len(content)
    /\ LET n == RowBody([processed |-> processed, raised |-> FALSE],
                        content[row_i])
       IN  /\ processed' = n.processed
           /\ scPc' = IF n.raised THEN "raised" ELSE "loop"
           /\ row_i' = IF n.raised THEN row_i ELSE row_i + 1
    /\ UNCHANGED <<content, scResult>>

\* `return processed`
ScReturn ==
    /\ scPc = "loop"
    /\ row_i > Len(content)
    /\ scPc' = "returned"
    /\ scResult' = Some(processed)
    /\ UNCHANGED <<content, row_i, processed>>

(***************************************************************************)
(* query_today (src/main.py 102-112)                                       *)
(***************************************************************************)

\* class Room, in definition order.
Rooms == <<"DR6", "DR7", "DR8", "DR9", "DR10", "DR11">>

NumRooms == Len(Rooms)

\* The pages a room's calendar serves in the model: a day without bookings,
\* a day with one booking, a day whose one row lacks the delimiter.
SamplePages ==
    { <<<<NoBookings>>>>,
      <<<<<<"12:00AM", Delimiter, "1:00PM">>, <<"A">>>>>>,
      <<<<<<"12:00AM", "1:00PM">>, <<"A">>>>>> }

QtInit ==
    /\ pages \in [1..NumRooms -> SamplePages]
    /\ now \in {process_time(<<"12:00AM">>), process_time(<<"1:00PM">>),
                process_time(<<"1:00PM">>) + 1}
    /\ room_i = 1
    /\ qtBookings = <<>>
    /\ qtStatus = <<>>
    /\ qtPc = "scrape"
    /\ qtResult = None

\* One element of the dict comprehension: scrape_room(room, today).  An
\* exception of scrape_room leaves the comprehension and query_today.
QtScrape ==
    /\ qtPc = "scrape"
    /\ room_i <= NumRooms
    /\ LET r == scrape_room(pages[room_i])
       IN  IF r.raised
           THEN /\ qtPc' = "raised"
                /\ UNCHANGED <<room_i, qtBookings>>
           ELSE /\ qtBookings' = Append(qtBookings, r.processed)
                /\ room_i' = room_i + 1
                /\ qtPc' = "scrape"
    /\ UNCHANGED <<now, pages, qtStatus, qtResult>>

\* The comprehension is complete; the for loop over data starts.
QtScraped ==
    /\ qtPc = "scrape"
    /\ room_i > NumRooms
    /\ qtPc' = "infer"
    /\ room_i' = 1
    /\ UNCHANGED <<now, pages, qtBookings, qtStatus, qtResult>>

\* One iteration of `for room in data`.  Each call of get_availability reads
\* the clock itself; the calls of one query are modelled at one instant.
QtInfer ==
    /\ qtPc = "infer"
    /\ room_i <= NumRooms
    /\ qtStatus' = Append(qtStatus, get_availability(qtBookings[room_i], now))
    /\ room_i' = room_i + 1
    /\ UNCHANGED <<now, pages, qtBookings, qtPc, qtResult>>

\* `return data`
QtReturn ==
    /\ qtPc = "infer"
    /\ room_i > NumRooms
    /\ qtPc' = "returned"
    /\ qtResult' = Some([r \in 1..NumRooms |->
                            [bookings |-> qtBookings[r],
                             booked |-> qtStatus[r][1],
                             until |-> qtStatus[r][2]]])
    /\ UNCHANGED <<now, pages, room_i, qtBookings, qtStatus>>

AvIdle ==
    /\ data = <<>>
    /\ idx = 1
    /\ booked = FALSE
    /\ until = None
    /\ avPc = "done"

ScIdle ==
    /\ content = <<>>
    /\ row_i = 1
    /\ processed = <<>>
    /\ scPc = "returned"
    /\ scResult = None

QtIdle ==
    /\ pages = <<>>
    /\ room_i = 1
    /\ qtBookings = <<>>
    /\ qtStatus = <<>>
    /\ qtPc = "returned"
    /\ qtResult = None

InitInfer == AvInit /\ ScIdle /\ QtIdle

NextInfer ==
    \/ AvIterate /\ UNCHANGED scVars /\ UNCHANGED qtVars
    \/ AvExhausted /\ UNCHANGED scVars /\ UNCHANGED qtVars
    \/ AvReturn /\ UNCHANGED scVars /\ UNCHANGED qtVars

SpecInfer == InitInfer /\ [][NextInfer]_vars

InitScrape == ScInit /\ now = 0 /\ AvIdle /\ QtIdle

NextScrape ==
    \/ ScIterate /\ UNCHANGED now /\ UNCHANGED avVars /\ UNCHANGED qtVars
    \/ ScReturn /\ UNCHANGED now /\ UNCHANGED avVars /\ UNCHANGED qtVars

SpecScrape == InitScrape /\ [][NextScrape]_vars

InitSnapshot == QtInit /\ AvIdle /\ ScIdle

NextSnapshot ==
    \/ QtScrape /\ UNCHANGED avVars /\ UNCHANGED scVars
    \/ QtScraped /\ UNCHANGED avVars /\ UNCHANGED scVars
    \/ QtInfer /\ UNCHANGED avVars /\ UNCHANGED scVars
    \/ QtReturn /\ UNCHANGED avVars /\ UNCHANGED scVars

SpecSnapshot == InitSnapshot /\ [][NextSnapshot]_vars

(***************************************************************************)
(* Properties of get_availability, checked under SpecInfer.                *)
(***************************************************************************)

Returned == avPc = "done"

\* The booking at position i contains now, boundaries included.
Contains(i) == StartOf(data[i]) <= now /\ now <= EndOf(data[i])

SomeContains == \E i \in 1..Len(data) : Contains(i)

SortedByStart ==
    \A i \in 1..Len(data), j \in 1..Len(data) :
        i < j => StartOf(data[i]) <= StartOf(data[j])

\* The bookings are ranges laid out left to right that share at most a
\* boundary instant: overlap is a notion of well-formed ranges only.
NonOverlapping ==
    \A i \in 1..Len(data) :
        /\ StartOf(data[i]) <= EndOf(data[i])
        /\ \A j \in 1..Len(data) : i < j => EndOf(data[i]) <= StartOf(data[j])

\* Positions k..j are exactly adjacent: each start equals the previous end.
Adjacent(k, j) == \A m \in k..(j - 1) : EndOf(data[m]) = StartOf(data[m + 1])

\* The last position of the maximal run of adjacent bookings that begins at k.
RunEnd(k) ==
    CHOOSE j \in k..Len(data) :
        /\ Adjacent(k, j)
        /\ (j = Len(data) \/ EndOf(data[j]) # StartOf(data[j + 1]))

\* C1: at no point of the scan, and in particular not at return, is
\* booked = true together with until = none.
C1_NeverBookedWithoutUntil == ~(booked /\ until = None)

C1_Witness ==
    /\ avPc = "scan"
    /\ idx = 2
    /\ idx <= Len(data)
    /\ booked
    /\ until = Some(EndOf(data[1]))

FirstStartingAfterNow ==
    CHOOSE i \in 1..Len(data) :
        /\ StartOf(data[i]) > now
        /\ \A m \in 1..(i - 1) : StartOf(data[m]) <= now

\* C3: on every schedule in which no booking contains now, the result is
\* booked = false with until = the start of the first booking, in schedule
\* order, whose start is after now, and until = none when there is none.
C3_FreeUntilFirstStartAfterNow ==
    (Returned /\ ~SomeContains) =>
        /\ ~booked
        /\ until = IF \E i \in 1..Len(data) : StartOf(data[i]) > now
                   THEN Some(StartOf(data[FirstStartingAfterNow]))
                   ELSE None

\* C4: now equal to the start or to the end of a booking with start < end
\* counts as inside it: on a schedule sorted by start the result is
\* booked = true, and for the schedule of that one booking with now = end the
\* result is (true, end).
C4_BoundariesInclusive ==
    Returned =>
        /\ (SortedByStart /\
            \E i \in 1..Len(data) :
                /\ StartOf(data[i]) < EndOf(data[i])
                /\ now \in {StartOf(data[i]), EndOf(data[i])}) => booked
        /\ (Len(data) = 1 /\ StartOf(data[1]) < EndOf(data[1])
              /\ now = EndOf(data[1])) =>
                (booked /\ until = Some(EndOf(data[1])))

C4_Witness ==
    /\ Returned /\ SortedByStart /\ NonOverlapping
    /\ Len(data) = 2
    /\ StartOf(data[1]) < EndOf(data[1])
    /\ EndOf(data[1]) < StartOf(data[2])
    /\ now = EndOf(data[1])
    /\ booked

\* The positions of the bookings that ended strictly before now.
PastPositions == {i \in 1..Len(data) : EndOf(data[i]) < now}

\* d without the positions in S.
RECURSIVE Without(_, _, _)
Without(d, S, i) ==
    IF i > Len(d) THEN <<>>
    ELSE (IF i \in S THEN <<>> ELSE <<d[i]>>) \o Without(d, S, i + 1)

\* C5: the schedule with any of the bookings that ended strictly before now
\* taken out, at whatever positions, gives the same (booked, until) as the
\* schedule itself.  Read from the shorter schedule to the longer one this is
\* the insertion of such bookings, so both directions are one statement.
C5_PastBookingsIgnored ==
    Returned =>
        \A S \in SUBSET PastPositions :
            get_availability(Without(data, S, 1), now) = <<booked, until>>

C5_Witness ==
    /\ Returned
    /\ Len(data) = 3
    /\ PastPositions = {1, 3}
    /\ StartOf(data[1]) < EndOf(data[1])
    /\ StartOf(data[2]) < EndOf(data[2])
    /\ booked
    /\ until = Some(EndOf(data[2]))

\* C9: on a schedule sorted by start, overlapping or not, the result has
\* booked = true exactly when some booking satisfies start <= now <= end.
C9_BookedIffSomeContains ==
    (Returned /\ SortedByStart) => (booked <=> SomeContains)

C9_Witness ==
    /\ Returned /\ SortedByStart /\ ~NonOverlapping
    /\ Len(data) = 3
    /\ ~Contains(1) /\ ~Contains(2) /\ Contains(3)
    /\ EndOf(data[2]) > StartOf(data[3])
    /\ booked

\* C10: on any schedule, a returned until other than none is not before now,
\* and with booked = false it is strictly after now.
C10_UntilNotBeforeNow ==
    (Returned /\ until # None) =>
        /\ until[1] >= now
        /\ (~booked => until[1] > now)

C10_Witness ==
    /\ Returned
    /\ ~SortedByStart
    /\ \E i \in 1..Len(data) : StartOf(data[i]) > EndOf(data[i])
    /\ booked
    /\ until # None
    /\ until[1] = now

(***************************************************************************)
(* Properties of scrape_room, checked under SpecScrape.                    *)
(***************************************************************************)

ScFinished == scPc \in {"returned", "raised"}

\* The time-of-day strings that denote a time: 12-hour clock, AM/PM suffix.
TimesOfDay == {"12:00AM", "1:00PM"}

\* The range string is two times of day with exactly one " - " between them.
WellFormedRange(str) ==
    \E a \in TimesOfDay, b \in TimesOfDay : str = <<a, Delimiter, b>>

\* Row i is a two-cell row whose range string is not well formed.
MalformedRangeAt(i) ==
    /\ content[i][1] # NoBookings
    /\ Len(content[i]) = 2
    /\ ~WellFormedRange(content[i][1])

\* Row i is the no-bookings row or a two-cell row with a well-formed range.
GoodRowAt(i) ==
    \/ content[i][1] = NoBookings
    \/ Len(content[i]) = 2 /\ WellFormedRange(content[i][1])

BookingRows == {i \in 1..Len(content) : content[i][1] # NoBookings}

\* C6: the parse is all or nothing.  When the range string of some row other
\* than the no-bookings row does not split on " - " into exactly two times of
\* day, the parse ends with an error and returns no schedule, neither a
\* partial nor an empty one; no-bookings rows are skipped without an error
\* and give no booking, so a page of good rows returns one booking per
\* booking row.
C6_ParseAllOrNothing ==
    /\ scPc # "returned" => scResult = None
    /\ ScFinished =>
        /\ (\E i \in 1..Len(content) : MalformedRangeAt(i)) =>
              (scPc = "raised" /\ scResult = None)
        /\ (\A i \in 1..Len(content) : GoodRowAt(i)) =>
              /\ scPc = "returned"
              /\ scResult = Some(processed)
              /\ Len(processed) = Cardinality(BookingRows)

C6_Witness ==
    /\ scPc = "raised"
    /\ Len(content) = 2
    /\ GoodRowAt(1) /\ content[1][1] # NoBookings
    /\ MalformedRangeAt(2)
    /\ Len(processed) = 1
    /\ scResult = None

\* C7: every booking of a returned schedule has start < end; a row whose
\* times give a zero-length or an inverted range is refused with an error.
C7_ReturnedBookingsProper ==
    scPc = "returned" =>
        \A i \in 1..Len(processed) :
            StartOf(processed[i]) < EndOf(processed[i])

(***************************************************************************)
(* Properties of query_today, checked under SpecSnapshot.                  *)
(***************************************************************************)

QtFinished == qtPc \in {"returned", "raised"}

\* The rooms that have an entry in what query_today hands to its caller.
RoomsInResult == IF qtResult = None THEN {} ELSE DOMAIN qtResult[1]

\* C8: a room whose page fails to parse does not abort the snapshot of the
\* other rooms: every room whose own rows parse has its entry in the result.
C8_RoomsIsolated ==
    QtFinished =>
        \A r \in 1..NumRooms :
            ~scrape_room(pages[r]).raised => r \in RoomsInResult

====
